---- MODULE Spec2Model ----
(***************************************************************************)
(* The RAG pipeline of the fact checker: ClaimExtractor, VectorRetriever,  *)
(* LLMComparator and the RAGPipeline orchestrator, as given in             *)
(* .kiro/specs/rag-pipeline-implementation/TASK_VERIFICATION_REPORT.md.    *)
(* Under Spec one behaviour is one call of RAGPipeline.verify; StoreSpec   *)
(* follows a FactBaseManager, ConcurrentSpec several calls of verify side  *)
(* by side, GatewaySpec and LimitSpec the HTTP handlers of the gateway     *)
(* with their CacheManager (backend/index.ts, unnamed/part_000, part_004), *)
(* GatewayFairSpec the same with timers and Redis commands that settle,    *)
(* and PageSpec the page of the frontend (unnamed/part_005).               *)
(*                                                                         *)
(* Similarities, distances and thresholds are integers in hundredths       *)
(* (0.3 is 30); a confidence is an exact fraction [num, den].              *)
(***************************************************************************)
EXTENDS Integers, Sequences, FiniteSets, TLC

\* ---------------------------------------------------------------- bounds
MaxFacts == 2

\* ------------------------------------------------------ program constants
DefaultThreshold == 30
DefaultTopK == 5

\* ------------------------------------------------------------ input sets
\* input texts, as sequences of characters
Inputs == {<<>>, <<" ">>, <<"a", " ", "b">>, <<" ", "a", " ">>}
Urls == {"u1", "u2"}
Thresholds == {0, DefaultThreshold}
TopKs == {1, DefaultTopK}
\* cosine distances the index may report, in hundredths of [0, 2]
Distances == {0, 80, 150}

None == [none |-> TRUE]

\* -------------------------------------------------------------- fractions
Rat(n, d) == [num |-> n, den |-> d]
RatLeq(a, b) == a.num * b.den <= b.num * a.den
RatEq(a, b) == a.num * b.den = b.num * a.den
Zero == Rat(0, 100)
Half == Rat(50, 100)
One == Rat(100, 100)

\* ------------------------------------------------------------------ state
VARIABLES
    input,                \* verify's argument input_text
    facts,                \* VectorRetriever.facts, the corpus behind the index
    similarity_threshold, \* VectorRetriever.similarity_threshold
    top_k,                \* VectorRetriever.top_k
    state,                \* the request's position in verify
    extracted_claim,      \* verify's local extracted_claim
    retrieved_facts,      \* verify's local retrieved_facts
    comparison,           \* verify's local comparison
    metadata,             \* verify's local metadata dict
    response,             \* the RAGResponse verify returned
    raised,               \* the exception verify let escape
    llmCalls,             \* number of LLMClient.generate invocations
    llmResponse,          \* the text generate returned in this call of compare
    confidenceSource      \* where comparison.confidence came from

vars == <<input, facts, similarity_threshold, top_k, state, extracted_claim,
          retrieved_facts, comparison, metadata, response, raised, llmCalls,
          llmResponse, confidenceSource>>

\* FactBaseManager
VARIABLES
    fact_base_file,       \* the JSON list stored at fact_base_path
    cache_embeddings,     \* FactBaseManager.cache_embeddings
    encodeCalls,          \* number of embedding_model.encode invocations
    managerOp,            \* the FactBaseManager method that returned last
    managerCalls          \* number of FactBaseManager methods that returned

storeVars == <<fact_base_file, cache_embeddings, encodeCalls, managerOp,
               managerCalls>>

\* calls of verify that run side by side on one RAGPipeline
VARIABLES
    requests,             \* the frame of each call: its argument and locals
    actor                 \* the call that took the last step

concurrentVars == <<requests, actor>>

\* the gateway: POST /api/verify, POST /api/rag/verify and their CacheManager
VARIABLES
    route,                \* which of the two handlers this gateway serves
    traffic,              \* the kind of claims the clients send
    isAvailable,          \* CacheManager.isAvailable
    store,                \* the keys Redis holds, with their values
    sets,                 \* the arguments of the set behind each held key
    pc,                   \* the handler's position
    claim,                \* the claim of the request body
    upstream,             \* how the fetch of the ML service ended
    cached,               \* what cache.get resolved to
    result,               \* the parsed body of the ML service's reply
    reply,                \* the HTTP response of the handler
    getHow,               \* how cache.get ended in this request
    setHow,               \* how cache.set ended in this request
    cacheThrew            \* a call of the CacheManager rejected

gatewayVars == <<route, traffic, isAvailable, store, sets, pc, claim,
                 upstream, cached, result, reply, getHow, setHow, cacheThrew>>

\* The page of the frontend (the Home component): its React state, the runs
\* of handleVerify and submitFeedback under way, and the interval timers.
VARIABLES
    typed,                \* the claim state, the content of the textarea
    useRagMode,           \* the useRagMode state
    shown,                \* the result state
    loading,              \* the loading state
    errorShown,           \* the error state
    loadingStage,         \* the loadingStage state
    feedbackSubmitted,    \* the feedbackSubmitted state
    feedbackLoading,      \* the feedbackLoading state
    runs,                 \* the runs of handleVerify that called the API
    intervals,            \* the runs whose stageInterval is active
    feedbackRequests      \* the runs of submitFeedback that called the API

pageVars == <<typed, useRagMode, shown, loading, errorShown, loadingStage,
              feedbackSubmitted, feedbackLoading, runs, intervals,
              feedbackRequests>>

\* what one call of verify leaves alone
outside == <<storeVars, concurrentVars, gatewayVars, pageVars>>

\* verify's own state of one call, the corpus aside
callVars == <<input, similarity_threshold, top_k, state, extracted_claim,
              retrieved_facts, comparison, metadata, response, raised,
              llmCalls, llmResponse, confidenceSource>>

\* ---------------------------------------------------------- ClaimExtractor
RECURSIVE LStrip(_)
LStrip(s) == IF s # <<>> /\ Head(s) = " " THEN LStrip(Tail(s)) ELSE s

RECURSIVE RStrip(_)
RStrip(s) ==
    IF s # <<>> /\ s[Len(s)] = " " THEN RStrip(SubSeq(s, 1, Len(s) - 1)) ELSE s

\* str.strip()
Strip(s) == RStrip(LStrip(s))

\* ClaimExtractor.extract, entities abstracted to whether any was found
ExtractedClaim(text, hasEntities) ==
    [text |-> Strip(text),
     confidence |-> IF hasEntities THEN One ELSE Half]

\* --------------------------------------------------------- VectorRetriever
Fact(i, url) == [id |-> i, source_url |-> url]

\* corpora of up to MaxFacts facts with distinct ids; the first fact's url is
\* called u1
Corpora ==
    UNION {{[i \in 1..n |-> Fact(i, u[i])] : u \in {v \in [1..n -> Urls] : n = 0 \/ v[1] = "u1"}}
             : n \in 0..MaxFacts}

Min(a, b) == IF a <= b THEN a ELSE b

\* collection.query: the n_results nearest facts, nearest first
QueryResults(corpus, k) ==
    LET n == Min(k, Len(corpus))
    IN {r \in [1..n -> [id : 1..Len(corpus), distance : Distances]] :
          /\ \A i, j \in 1..n : i # j => r[i].id # r[j].id
          /\ \A i \in 1..n : i < n => r[i].distance <= r[i + 1].distance}

\* next(f for f in self.facts if f.id == fact_id)
FactById(corpus, id) ==
    corpus[CHOOSE i \in 1..Len(corpus) :
             corpus[i].id = id /\ \A j \in 1..(i - 1) : corpus[j].id # id]

\* faulty variant: the distance is reported as the similarity
SimilarityAsDistance(distance) == distance

\* similarity = 1 - distance
Similarity(distance) == 100 - distance

\* faulty variant: the threshold filter is dropped
PassesThresholdNoFilter(similarity, threshold) == TRUE

PassesThreshold(similarity, threshold) == similarity >= threshold

\* the loop of VectorRetriever.retrieve over the query's results
Retrieve(corpus, results, threshold) ==
    LET scored == [i \in 1..Len(results) |->
                     [fact |-> FactById(corpus, results[i].id),
                      similarity |-> Similarity(results[i].distance)]]
        Keep(e) == PassesThreshold(e.similarity, threshold)
    IN SelectSeq(scored, Keep)

\* ----------------------------------------------------------- LLMComparator
\* A model reply is a sequence of tokens: prose, the two fence markers
\* (three backticks followed by json, and three backticks alone; the first
\* contains the second), whitespace, and JSON values.
Prose == [t |-> "prose"]
FenceJson == [t |-> "fence_json"]
Fence == [t |-> "fence"]
Space == [t |-> "ws"]
Json(v) == [t |-> "json", value |-> v]

Absent == [k |-> "absent"]
Null == [k |-> "null"]
Num(n) == [k |-> "num", n |-> n]
Str(s) == [k |-> "str", s |-> s]

\* a piece of text as a one-token sequence, so that it compares with a reply
Text(s) == <<[t |-> "text", s |-> s]>>

Verdicts == {"true", "false", "unverifiable"}

JsonObject(verdict, confidence, explanation) ==
    [kind |-> "object", verdict |-> verdict, confidence |-> confidence,
     explanation |-> explanation, reasoning |-> Str("why")]

\* the JSON values a reply may carry: objects of the requested shape with any
\* verdict string and a confidence given or omitted, objects with a field
\* missing, null or of the wrong type, and a value that is no object
JsonValues ==
    {JsonObject(Str(v), c, Str(Text("expl"))) :
        v \in Verdicts \cup {"maybe"}, c \in {Absent, Num(80), Num(150)}}
    \cup {JsonObject(Absent, Absent, Str(Text("expl"))),
          JsonObject(Str("unverifiable"), Null, Str(Text("expl"))),
          JsonObject(Str("true"), Str("high"), Str(Text("expl"))),
          JsonObject(Str("true"), Num(80), Absent),
          [kind |-> "scalar"]}

GoodJson == JsonObject(Str("true"), Num(80), Str(Text("expl")))

\* the replies: every JSON value bare and inside a json fence between prose,
\* and one good value in the other wrappings
Responses ==
    {<<Prose>>, <<>>, <<FenceJson, Prose, Fence>>}
    \cup {<<Json(v)>> : v \in JsonValues}
    \cup {<<Prose, FenceJson, Space, Json(v), Space, Fence, Prose>> : v \in JsonValues}
    \cup {<<Space, Json(GoodJson), Space>>,
          <<Prose, Json(GoodJson)>>,
          <<Fence, Json(GoodJson), Fence>>,
          <<FenceJson, Json(GoodJson)>>,
          <<Fence, Prose, Fence, Json(GoodJson)>>}

Contains(s, tok) == \E i \in 1..Len(s) : s[i] = tok

IsFence(tok) == tok = Fence \/ tok = FenceJson

FirstIndex(s, tok) == CHOOSE i \in 1..Len(s) : s[i] = tok /\ \A j \in 1..(i - 1) : s[j] # tok

\* s.split(tok)[1]: what lies between the first and the second tok
SplitSecond(s, tok) ==
    LET rest == SubSeq(s, FirstIndex(s, tok) + 1, Len(s))
    IN IF Contains(rest, tok) THEN SubSeq(rest, 1, FirstIndex(rest, tok) - 1) ELSE rest

\* s.split(fence)[0]: what lies before the first fence of either kind
RECURSIVE SplitFirstAtFence(_)
SplitFirstAtFence(s) ==
    IF s = <<>> \/ IsFence(Head(s)) THEN <<>> ELSE <<Head(s)>> \o SplitFirstAtFence(Tail(s))

RECURSIVE LStripSpace(_)
LStripSpace(s) == IF s # <<>> /\ Head(s) = Space THEN LStripSpace(Tail(s)) ELSE s

RECURSIVE RStripSpace(_)
RStripSpace(s) ==
    IF s # <<>> /\ s[Len(s)] = Space THEN RStripSpace(SubSeq(s, 1, Len(s) - 1)) ELSE s

\* json_str of _parse_response
JsonStr(resp) ==
    LET cut == IF Contains(resp, FenceJson)
                 THEN SplitFirstAtFence(SplitSecond(resp, FenceJson))
               ELSE IF Contains(resp, Fence)
                 THEN SplitFirstAtFence(SplitSecond(resp, Fence))
               ELSE resp
    IN RStripSpace(LStripSpace(cut))

\* json.loads accepts exactly one JSON value, whitespace around it allowed
JsonLoadsOk(s) ==
    LET body == RStripSpace(LStripSpace(s))
    IN Len(body) = 1 /\ body[1].t = "json"

JsonLoads(s) == RStripSpace(LStripSpace(s))[1].value

RECURSIVE SumSimilarity(_)
SumSimilarity(evidence) ==
    IF evidence = <<>> THEN 0
    ELSE Head(evidence).similarity + SumSimilarity(Tail(evidence))

RatMin(a, b) == IF RatLeq(a, b) THEN a ELSE b

\* faulty variant: the mean is returned uncapped for every verdict
CalculateConfidenceUncapped(verdict, evidence) ==
    IF evidence = <<>> THEN Zero
    ELSE Rat(SumSimilarity(evidence), 100 * Len(evidence))

\* LLMComparator._calculate_confidence
CalculateConfidence(verdict, evidence) ==
    IF evidence = <<>> THEN Zero
    ELSE LET avg_similarity == Rat(SumSimilarity(evidence), 100 * Len(evidence))
         IN IF verdict = Str("unverifiable") THEN RatMin(avg_similarity, Half)
            ELSE avg_similarity

\* "confidence" not in data or data["confidence"] is None
ConfidenceMissing(data) == data.confidence = Absent \/ data.confidence = Null

\* data.get("verdict", "unverifiable")
VerdictOrDefault(data) == IF data.verdict = Absent THEN Str("unverifiable") ELSE data.verdict

\* data after the confidence back-fill of _parse_response
WithConfidence(data, evidence) ==
    IF ConfidenceMissing(data)
      THEN [data EXCEPT !.confidence =
              [k |-> "rat", r |-> CalculateConfidence(VerdictOrDefault(data), evidence)]]
      ELSE [data EXCEPT !.confidence =
              IF @.k = "num" THEN [k |-> "rat", r |-> Rat(@.n, 100)] ELSE @]

\* ComparisonResult(**data) validates: verdict, explanation and reasoning are
\* strings, confidence is a number
Validates(data) ==
    /\ data.verdict.k = "str"
    /\ data.confidence.k = "rat"
    /\ data.explanation.k = "str"
    /\ data.reasoning.k = "str"

\* the try block of _parse_response runs to its return
ParseSucceeds(resp, evidence) ==
    /\ JsonLoadsOk(JsonStr(resp))
    /\ JsonLoads(JsonStr(resp)).kind = "object"
    /\ Validates(WithConfidence(JsonLoads(JsonStr(resp)), evidence))

ComparisonResult(verdict, confidence, explanation, reasoning) ==
    [verdict |-> verdict, confidence |-> confidence,
     explanation |-> explanation, reasoning |-> reasoning]

ParseFallbackReasoning == "Failed to parse structured response"

\* faulty variant: the fallback drops the reply's text
ParseFallbackDropsText(resp) ==
    ComparisonResult("unverifiable", Half, <<>>, ParseFallbackReasoning)

\* the except branch of _parse_response
ParseFallback(resp) ==
    ComparisonResult("unverifiable", Half, resp, ParseFallbackReasoning)

\* LLMComparator._parse_response
ParseResponse(resp, evidence) ==
    IF ParseSucceeds(resp, evidence)
      THEN LET data == WithConfidence(JsonLoads(JsonStr(resp)), evidence)
           IN ComparisonResult(data.verdict.s, data.confidence.r,
                               data.explanation.s, data.reasoning.s)
      ELSE ParseFallback(resp)

\* the early return of LLMComparator.compare on empty evidence
NoEvidenceResult ==
    ComparisonResult("unverifiable", Zero,
                     Text("No relevant evidence found in the fact base."),
                     "Insufficient evidence to verify this claim.")

\* which branch supplied comparison.confidence
SourceOfConfidence(resp, evidence) ==
    IF ~ParseSucceeds(resp, evidence) THEN "fallback"
    ELSE IF ConfidenceMissing(JsonLoads(JsonStr(resp))) THEN "evidence"
    ELSE "model"

\* --------------------------------------------------- components at rest
\* the VectorRetriever as constructed by default
RetrieverAtRest ==
    /\ similarity_threshold = DefaultThreshold
    /\ top_k = DefaultTopK

\* no call of verify is under way
CallAtRest ==
    /\ input = <<>>
    /\ state = "Started"
    /\ extracted_claim = None
    /\ retrieved_facts = <<>>
    /\ comparison = None
    /\ metadata = <<>>
    /\ response = None
    /\ raised = "none"
    /\ llmCalls = 0
    /\ llmResponse = None
    /\ confidenceSource = "none"

\* the FactBaseManager has done its work before verify is called
StoreAtRest ==
    /\ fact_base_file = <<>>
    /\ cache_embeddings = TRUE
    /\ encodeCalls = 0
    /\ managerOp = "none"
    /\ managerCalls = 0

\* no other call of verify runs
AloneAtRest ==
    /\ requests = <<>>
    /\ actor = 0

\* the gateway serves no request
GatewayAtRest ==
    /\ route = "verify"
    /\ traffic = "short"
    /\ isAvailable = FALSE
    /\ store = {}
    /\ sets = {}
    /\ pc = "idle"
    /\ claim = <<>>
    /\ upstream = None
    /\ cached = None
    /\ result = None
    /\ reply = None
    /\ getHow = "none"
    /\ setHow = "none"
    /\ cacheThrew = FALSE

\* the page before any event: the initial values of its useState calls
PageAtRest ==
    /\ typed = <<>>
    /\ useRagMode = TRUE
    /\ shown = None
    /\ loading = FALSE
    /\ errorShown = ""
    /\ loadingStage = ""
    /\ feedbackSubmitted = FALSE
    /\ feedbackLoading = FALSE
    /\ runs = <<>>
    /\ intervals = {}
    /\ feedbackRequests = <<>>

\* ------------------------------------------------------------- RAGPipeline
Elapsed == "elapsed"

Init ==
    /\ input \in Inputs
    /\ facts \in Corpora
    /\ similarity_threshold \in Thresholds
    /\ top_k \in TopKs
    /\ state = "Started"
    /\ extracted_claim = None
    /\ retrieved_facts = <<>>
    /\ comparison = None
    /\ metadata = <<>>
    /\ response = None
    /\ raised = "none"
    /\ llmCalls = 0
    /\ llmResponse = None
    /\ confidenceSource = "none"
    /\ StoreAtRest
    /\ AloneAtRest
    /\ GatewayAtRest
    /\ PageAtRest

\* An exception leaves verify: no handler in verify or compare catches it, the
\* frame's locals go with the frame, and the caller holds the exception alone.
Unwind(exception) ==
    /\ state' = "Failed"
    /\ raised' = exception
    /\ extracted_claim' = None
    /\ retrieved_facts' = <<>>
    /\ comparison' = None
    /\ metadata' = <<>>
    /\ UNCHANGED <<input, facts, similarity_threshold, top_k, response>>
    /\ UNCHANGED outside

\* Stage 1, claim_extractor.extract returns
Extract ==
    /\ state = "Started"
    /\ \E hasEntities \in BOOLEAN :
         extracted_claim' = ExtractedClaim(input, hasEntities)
    /\ metadata' = metadata @@ ("extraction_time" :> Elapsed)
    /\ state' = "Extracted"
    /\ UNCHANGED <<input, facts, similarity_threshold, top_k, retrieved_facts,
                   comparison, response, raised, llmCalls, llmResponse,
                   confidenceSource>>
    /\ UNCHANGED outside

\* Stage 1, the NER capability raises
ExtractRaises ==
    /\ state = "Started"
    /\ Unwind("ClaimExtractionError")
    /\ UNCHANGED <<llmCalls, llmResponse, confidenceSource>>

\* Stage 2, vector_retriever.retrieve returns
RetrieveStage ==
    /\ state = "Extracted"
    /\ \E results \in QueryResults(facts, top_k) :
         LET retrieved == Retrieve(facts, results, similarity_threshold)
         IN /\ retrieved_facts' = retrieved
            /\ metadata' = metadata @@ ("retrieval_time" :> Elapsed)
                                    @@ ("facts_retrieved" :> Len(retrieved))
    /\ state' = "Retrieved"
    /\ UNCHANGED <<input, facts, similarity_threshold, top_k, extracted_claim,
                   comparison, response, raised, llmCalls, llmResponse,
                   confidenceSource>>
    /\ UNCHANGED outside

\* Stage 2, the embedding model or the index raises
RetrieveRaises ==
    /\ state = "Extracted"
    /\ Unwind("RetrievalError")
    /\ UNCHANGED <<llmCalls, llmResponse, confidenceSource>>

\* faulty variant: compare has no early return and asks the model about no evidence
CompareNoEvidenceAsksModel ==
    /\ state = "Retrieved"
    /\ retrieved_facts = <<>>
    /\ \E resp \in Responses :
         /\ llmResponse' = [text |-> resp]
         /\ comparison' = ParseResponse(resp, retrieved_facts)
         /\ confidenceSource' = SourceOfConfidence(resp, retrieved_facts)
    /\ llmCalls' = llmCalls + 1
    /\ metadata' = metadata @@ ("comparison_time" :> Elapsed)
    /\ state' = "Compared"
    /\ UNCHANGED <<input, facts, similarity_threshold, top_k, extracted_claim,
                   retrieved_facts, response, raised>>
    /\ UNCHANGED outside

\* faulty variant: verify answers a request without evidence at once, skipping the
\* comparison stage
CompareNoEvidenceSkipsStage ==
    /\ state = "Retrieved"
    /\ retrieved_facts = <<>>
    /\ comparison' = NoEvidenceResult
    /\ confidenceSource' = "empty"
    /\ metadata' = metadata @@ ("total_time" :> Elapsed)
    /\ response' = [claim |-> input,
                    extracted_claim |-> extracted_claim,
                    verdict |-> NoEvidenceResult.verdict,
                    confidence |-> NoEvidenceResult.confidence,
                    explanation |-> NoEvidenceResult.explanation,
                    reasoning |-> NoEvidenceResult.reasoning,
                    evidence |-> <<>>,
                    sources |-> <<>>,
                    metadata |-> metadata']
    /\ state' = "Assembled"
    /\ UNCHANGED <<input, facts, similarity_threshold, top_k, extracted_claim,
                   retrieved_facts, raised, llmCalls, llmResponse>>
    /\ UNCHANGED outside

\* faulty variant: an empty evidence list is treated as a retrieval failure
CompareNoEvidenceRaises ==
    /\ state = "Retrieved"
    /\ retrieved_facts = <<>>
    /\ Unwind("RetrievalError")
    /\ UNCHANGED <<llmCalls, llmResponse, confidenceSource>>

\* Stage 3, compare returns early on empty evidence
CompareNoEvidence ==
    /\ state = "Retrieved"
    /\ retrieved_facts = <<>>
    /\ comparison' = NoEvidenceResult
    /\ confidenceSource' = "empty"
    /\ metadata' = metadata @@ ("comparison_time" :> Elapsed)
    /\ state' = "Compared"
    /\ UNCHANGED <<input, facts, similarity_threshold, top_k, extracted_claim,
                   retrieved_facts, response, raised, llmCalls, llmResponse>>
    /\ UNCHANGED outside

\* faulty variant: compare asks the model a second time to refine its reply
CompareWithEvidenceRefines ==
    /\ state = "Retrieved"
    /\ retrieved_facts # <<>>
    /\ \E resp \in Responses :
         /\ llmResponse' = [text |-> resp]
         /\ comparison' = ParseResponse(resp, retrieved_facts)
         /\ confidenceSource' = SourceOfConfidence(resp, retrieved_facts)
    /\ llmCalls' = llmCalls + 2
    /\ metadata' = metadata @@ ("comparison_time" :> Elapsed)
    /\ state' = "Compared"
    /\ UNCHANGED <<input, facts, similarity_threshold, top_k, extracted_claim,
                   retrieved_facts, response, raised>>
    /\ UNCHANGED outside

\* Stage 3, compare calls llm.generate, which returns a reply
CompareWithEvidence ==
    /\ state = "Retrieved"
    /\ retrieved_facts # <<>>
    /\ \E resp \in Responses :
         /\ llmResponse' = [text |-> resp]
         /\ comparison' = ParseResponse(resp, retrieved_facts)
         /\ confidenceSource' = SourceOfConfidence(resp, retrieved_facts)
    /\ llmCalls' = llmCalls + 1
    /\ metadata' = metadata @@ ("comparison_time" :> Elapsed)
    /\ state' = "Compared"
    /\ UNCHANGED <<input, facts, similarity_threshold, top_k, extracted_claim,
                   retrieved_facts, response, raised>>
    /\ UNCHANGED outside

\* faulty variant: compare swallows the model's failure and answers unverifiable
CompareRaisesMasked ==
    /\ state = "Retrieved"
    /\ retrieved_facts # <<>>
    /\ llmCalls' = llmCalls + 1
    /\ comparison' = ComparisonResult("unverifiable", Zero, <<>>, "LLM unavailable")
    /\ confidenceSource' = "fallback"
    /\ metadata' = metadata @@ ("comparison_time" :> Elapsed)
    /\ state' = "Compared"
    /\ UNCHANGED <<input, facts, similarity_threshold, top_k, extracted_claim,
                   retrieved_facts, response, raised, llmResponse>>
    /\ UNCHANGED outside

\* Stage 3, compare calls llm.generate, which raises (timeout, network, quota)
CompareRaises ==
    /\ state = "Retrieved"
    /\ retrieved_facts # <<>>
    /\ llmCalls' = llmCalls + 1
    /\ Unwind("LLMError")
    /\ UNCHANGED <<llmResponse, confidenceSource>>

\* evidence of the RAGResponse
SerializeEvidence(retrieved) ==
    [i \in 1..Len(retrieved) |->
       [id |-> retrieved[i].fact.id,
        similarity |-> retrieved[i].similarity,
        source_url |-> retrieved[i].fact.source_url]]

\* sources of the RAGResponse
Sources(retrieved) == [i \in 1..Len(retrieved) |-> retrieved[i].fact.source_url]

\* "Format response" of verify
Assemble ==
    /\ state = "Compared"
    /\ metadata' = metadata @@ ("total_time" :> Elapsed)
    /\ response' = [claim |-> input,
                    extracted_claim |-> extracted_claim,
                    verdict |-> comparison.verdict,
                    confidence |-> comparison.confidence,
                    explanation |-> comparison.explanation,
                    reasoning |-> comparison.reasoning,
                    evidence |-> SerializeEvidence(retrieved_facts),
                    sources |-> Sources(retrieved_facts),
                    metadata |-> metadata']
    /\ state' = "Assembled"
    /\ UNCHANGED <<input, facts, similarity_threshold, top_k, extracted_claim,
                   retrieved_facts, comparison, raised, llmCalls, llmResponse,
                   confidenceSource>>
    /\ UNCHANGED outside

Next ==
    \/ Extract
    \/ ExtractRaises
    \/ RetrieveStage
    \/ RetrieveRaises
    \/ CompareNoEvidence
    \/ CompareWithEvidence
    \/ CompareRaises
    \/ Assemble

Spec == Init /\ [][Next]_vars

\* The stages that run without an external call run to their end: the early
\* return of compare and the formatting of the response are straight-line
\* code of the one task that executes verify.
FairSpec == Spec /\ WF_vars(CompareNoEvidence) /\ WF_vars(Assemble)

\* --------------------------------------------------------- FactBaseManager
\* the dimension of all-MiniLM-L6-v2 vectors
Dimension == 384

Vec(v) == [k |-> "vec", e |-> v]

\* embedding_model.encode followed by tolist, for one fact
Encode(id) == Vec([i \in 1..Dimension |-> id])

\* the "embedding" entry of a fact in the JSON file: no key, null, the empty
\* list of fact_base_example.json, the zero placeholder, a cached vector
FileEmbeddings(id) ==
    {Absent, Null, Vec(<<>>), Vec([i \in 1..Dimension |-> 0]), Encode(id)}

FactIds == {1, 2}

FactBaseFiles ==
    UNION {[1..n -> UNION {{[id |-> id, embedding |-> e] : e \in FileEmbeddings(id)}
                             : id \in FactIds}]
             : n \in 0..MaxFacts}

\* Fact(**fact_data): a missing embedding takes the default None
ParseFact(fact_data) ==
    [id |-> fact_data.id,
     embedding |-> IF fact_data.embedding = Absent THEN Null
                   ELSE fact_data.embedding]

\* fact.model_dump()
ModelDump(fact) == [id |-> fact.id, embedding |-> fact.embedding]

\* faulty variant: every fact is embedded anew on every call
FactsWithoutEmbeddingsAll(fs) == {i \in 1..Len(fs) : TRUE}

\* facts_without_embeddings, as positions in self.facts
FactsWithoutEmbeddings(fs) == {i \in 1..Len(fs) : fs[i].embedding = Null}

\* self.facts after the loop over zip(facts_without_embeddings, embeddings)
Embedded(fs) ==
    [i \in 1..Len(fs) |->
       IF i \in FactsWithoutEmbeddings(fs)
       THEN [fs[i] EXCEPT !.embedding = Encode(fs[i].id)]
       ELSE fs[i]]

\* _ensure_embeddings on self.facts = fs
EnsureEmbeddingsOn(fs) ==
    IF FactsWithoutEmbeddings(fs) = {}
    THEN /\ facts' = fs
         /\ UNCHANGED <<fact_base_file, encodeCalls>>
    ELSE /\ facts' = Embedded(fs)
         /\ encodeCalls' = encodeCalls + 1
         /\ fact_base_file' =
              IF cache_embeddings
              THEN [i \in 1..Len(fs) |-> ModelDump(Embedded(fs)[i])]
              ELSE fact_base_file

\* the number of FactBaseManager calls one behaviour follows
MaxCalls == 3

StoreInit ==
    /\ fact_base_file \in FactBaseFiles
    /\ cache_embeddings \in BOOLEAN
    /\ facts = <<>>
    /\ encodeCalls = 0
    /\ managerOp = "none"
    /\ managerCalls = 0
    /\ CallAtRest
    /\ RetrieverAtRest
    /\ AloneAtRest
    /\ GatewayAtRest
    /\ PageAtRest

\* FactBaseManager.load
Load ==
    /\ managerCalls < MaxCalls
    /\ EnsureEmbeddingsOn([i \in 1..Len(fact_base_file) |->
                              ParseFact(fact_base_file[i])])
    /\ managerOp' = "load"
    /\ managerCalls' = managerCalls + 1
    /\ UNCHANGED <<cache_embeddings, callVars, concurrentVars, gatewayVars,
                   pageVars>>

\* FactBaseManager._ensure_embeddings, called on the manager as it stands
EnsureEmbeddings ==
    /\ managerCalls < MaxCalls
    /\ EnsureEmbeddingsOn(facts)
    /\ managerOp' = "ensure"
    /\ managerCalls' = managerCalls + 1
    /\ UNCHANGED <<cache_embeddings, callVars, concurrentVars, gatewayVars,
                   pageVars>>

StoreNext ==
    \/ Load
    \/ EnsureEmbeddings

StoreSpec == StoreInit /\ [][StoreNext]_<<facts, storeVars>>

\* ------------------------------------------- verify, several calls at once
\* Each call of verify has its own frame; the calls share the pipeline's
\* components: the corpus and index of the VectorRetriever and its settings.
Requests == {1, 2}
ConcurrentInputs == {<<"a">>, <<" ", "b">>}
ConcurrentCorpora == {<<Fact(1, "u1"), Fact(2, "u2")>>}
ConcurrentResponses == {<<Prose>>, <<Json(GoodJson)>>}

NewFrame(text) ==
    [input |-> text, state |-> "Started", extracted_claim |-> None,
     results |-> <<>>, retrieved_facts |-> <<>>, llmResponse |-> None,
     comparison |-> None, metadata |-> <<>>, response |-> None,
     raised |-> "none"]

ConcurrentInit ==
    /\ requests \in [Requests -> {NewFrame(text) : text \in ConcurrentInputs}]
    /\ actor = 0
    /\ facts \in ConcurrentCorpora
    /\ similarity_threshold = DefaultThreshold
    /\ top_k = 1
    /\ CallAtRest
    /\ StoreAtRest
    /\ GatewayAtRest
    /\ PageAtRest

\* the frame of call r after an exception left verify
UnwindOf(r, exception) ==
    [requests[r] EXCEPT !.state = "Failed", !.raised = exception,
                        !.extracted_claim = None, !.retrieved_facts = <<>>,
                        !.comparison = None, !.metadata = <<>>]

\* call r takes a step that leaves its frame as frame
StepOf(r, frame) ==
    /\ requests' = [requests EXCEPT ![r] = frame]
    /\ actor' = r
    /\ UNCHANGED <<facts, callVars, storeVars, gatewayVars, pageVars>>

\* faulty variant: the evidence is kept in a field of the pipeline object,
\* which holds what the first call stored there
EvidenceOfShared(r) == requests[1].retrieved_facts

\* the local retrieved_facts of call r
EvidenceOf(r) == requests[r].retrieved_facts

ExtractOf(r) ==
    /\ requests[r].state = "Started"
    /\ \E hasEntities \in BOOLEAN :
         StepOf(r, [requests[r] EXCEPT
                      !.extracted_claim = ExtractedClaim(requests[r].input, hasEntities),
                      !.metadata = @ @@ ("extraction_time" :> Elapsed),
                      !.state = "Extracted"])

ExtractRaisesOf(r) ==
    /\ requests[r].state = "Started"
    /\ StepOf(r, UnwindOf(r, "ClaimExtractionError"))

RetrieveOf(r) ==
    /\ requests[r].state = "Extracted"
    /\ \E results \in QueryResults(facts, top_k) :
         LET retrieved == Retrieve(facts, results, similarity_threshold)
         IN StepOf(r, [requests[r] EXCEPT
                         !.results = results,
                         !.retrieved_facts = retrieved,
                         !.metadata = @ @@ ("retrieval_time" :> Elapsed)
                                        @@ ("facts_retrieved" :> Len(retrieved)),
                         !.state = "Retrieved"])

RetrieveRaisesOf(r) ==
    /\ requests[r].state = "Extracted"
    /\ StepOf(r, UnwindOf(r, "RetrievalError"))

CompareNoEvidenceOf(r) ==
    /\ requests[r].state = "Retrieved"
    /\ EvidenceOf(r) = <<>>
    /\ StepOf(r, [requests[r] EXCEPT
                    !.comparison = NoEvidenceResult,
                    !.metadata = @ @@ ("comparison_time" :> Elapsed),
                    !.state = "Compared"])

CompareWithEvidenceOf(r) ==
    /\ requests[r].state = "Retrieved"
    /\ EvidenceOf(r) # <<>>
    /\ \E resp \in ConcurrentResponses :
         StepOf(r, [requests[r] EXCEPT
                      !.llmResponse = [text |-> resp],
                      !.comparison = ParseResponse(resp, EvidenceOf(r)),
                      !.metadata = @ @@ ("comparison_time" :> Elapsed),
                      !.state = "Compared"])

CompareRaisesOf(r) ==
    /\ requests[r].state = "Retrieved"
    /\ EvidenceOf(r) # <<>>
    /\ StepOf(r, UnwindOf(r, "LLMError"))

\* the RAGResponse built from the locals of one frame
ResponseOf(frame, retrieved) ==
    [claim |-> frame.input,
     extracted_claim |-> frame.extracted_claim,
     verdict |-> frame.comparison.verdict,
     confidence |-> frame.comparison.confidence,
     explanation |-> frame.comparison.explanation,
     reasoning |-> frame.comparison.reasoning,
     evidence |-> SerializeEvidence(retrieved),
     sources |-> Sources(retrieved),
     metadata |-> frame.metadata]

AssembleOf(r) ==
    /\ requests[r].state = "Compared"
    /\ LET timed == [requests[r] EXCEPT
                       !.metadata = @ @@ ("total_time" :> Elapsed)]
       IN StepOf(r, [timed EXCEPT
                       !.response = ResponseOf(timed, EvidenceOf(r)),
                       !.state = "Assembled"])

ConcurrentNext ==
    \E r \in Requests :
        \/ ExtractOf(r)
        \/ ExtractRaisesOf(r)
        \/ RetrieveOf(r)
        \/ RetrieveRaisesOf(r)
        \/ CompareNoEvidenceOf(r)
        \/ CompareWithEvidenceOf(r)
        \/ CompareRaisesOf(r)
        \/ AssembleOf(r)

ConcurrentSpec ==
    ConcurrentInit /\ [][ConcurrentNext]_<<facts, callVars, concurrentVars>>

\* ----------------------------------------------------------- CacheManager
\* A claim is a sequence of characters. SHA-256 is taken to be injective: a
\* key is the prefix and the normalized claim that is hashed.
ToLowerCase(c) == [i \in 1..Len(c) |-> IF c[i] = "A" THEN "a" ELSE c[i]]

KeyPrefix(r) == IF r = "rag" THEN "rag:" ELSE "claim:"

\* faulty variant: the claim is hashed as it was sent
GenerateKeyVerbatim(r, c) == [prefix |-> KeyPrefix(r), hash |-> c]

\* CacheManager.generateKey
GenerateKey(r, c) == [prefix |-> KeyPrefix(r), hash |-> Strip(ToLowerCase(c))]

\* a verification result as a JavaScript object: each field is a value or
\* undefined (Absent)
ResultObject(c, verdict, confidence) ==
    [kind |-> "object", claim |-> c, verdict |-> verdict,
     confidence |-> confidence]

ResultFields == <<"claim", "verdict", "confidence">>

FieldOf(obj, name) ==
    CASE name = "claim" -> obj.claim
      [] name = "verdict" -> obj.verdict
      [] name = "confidence" -> obj.confidence

\* JSON.stringify: the members of the object in order, undefined ones left out
JsonStringify(obj) ==
    LET members == [i \in 1..Len(ResultFields) |->
                      [name |-> ResultFields[i],
                       value |-> FieldOf(obj, ResultFields[i])]]
        Defined(m) == m.value # Absent
    IN SelectSeq(members, Defined)

\* the value of a member of a JSON text, undefined when there is none
Member(text, name) ==
    IF \E i \in 1..Len(text) : text[i].name = name
    THEN text[CHOOSE i \in 1..Len(text) : text[i].name = name].value
    ELSE Absent

\* JSON.parse of a text written by JsonStringify
JsonParse(text) ==
    ResultObject(Member(text, "claim"), Member(text, "verdict"),
                 Member(text, "confidence"))

\* redis.get: the value held under the key, or nil
Held(key) == {e \in store : e.key = key}

\* JavaScript truthiness of a field; empty is the empty string of its type
Truthy(v, empty) ==
    CASE v.k = "str" -> v.s # empty
      [] v.k = "num" -> v.n # 0
      [] OTHER -> FALSE

\* -------------------------------------------------------- the two handlers
\* the limit of claim.length in POST /api/verify and in POST /api/rag/verify
MaxClaimLength == 1000
RagMaxClaimLength == 2000

MaxLength(r) == IF r = "rag" THEN RagMaxClaimLength ELSE MaxClaimLength

Pad(n) == [i \in 1..n |-> "a"]

\* short request claims: empty, blank, and two that differ in case and
\* trailing space
ShortClaims == {<<>>, <<" ">>, <<"a">>, <<"A", " ">>}

\* request claims at the limit: of the greatest length; one space longer;
\* one letter longer; and the empty and the blank one
ClaimsAt(max) ==
    {Pad(max), <<" ">> \o Pad(max), Pad(max + 1), <<>>, <<" ">>}

VerifyLimitClaims == ClaimsAt(MaxClaimLength)
RagLimitClaims == ClaimsAt(RagMaxClaimLength)

ClaimsFor(r, t) ==
    IF t = "short" THEN ShortClaims
    ELSE IF r = "rag" THEN RagLimitClaims ELSE VerifyLimitClaims

ErrorBody(e) == [kind |-> "error", error |-> e]

Reply(status, body) == [status |-> status, body |-> body]

\* faulty variant: the limit is applied to the trimmed claim
TooLongTrimmed(c, max) == Len(Strip(c)) > max

\* claim.length > max
TooLong(c, max) == Len(c) > max

\* the input validation of the handler: the 400 reply, or None
Validation(r, c) ==
    IF c = <<>> \/ Len(Strip(c)) = 0 THEN Reply(400, ErrorBody("Claim is required"))
    ELSE IF TooLong(c, MaxLength(r)) THEN Reply(400, ErrorBody("Claim too long"))
    ELSE None

\* the bodies an OK reply of the ML service may carry for a claim
Bodies(c) ==
    {ResultObject(Str(c), Str("true"), Num(80)),
     ResultObject(Str(c), Str("maybe"), Num(80)),
     ResultObject(Str(c), Str("true"), Num(150)),
     ResultObject(Str(c), Str("true"), Str("high")),
     ResultObject(Str(c), Str("true"), Absent),
     ResultObject(Str(c), Absent, Num(80)),
     ResultObject(Absent, Str("true"), Num(80)),
     [kind |-> "null"],
     [kind |-> "unparsable"]}

\* how the fetch of the ML service may end
Outcomes(c) ==
    {[kind |-> "status", status |-> n] : n \in {302, 400, 404, 500, 502, 503}}
    \cup {[kind |-> "abort"]}
    \cup {[kind |-> "error", message |-> m] :
            m \in {<<"fetch failed">>, <<"connect", "ECONNREFUSED">>,
                   <<"socket hang up">>}}
    \cup {[kind |-> "ok", body |-> b] : b \in Bodies(c)}

\* faulty variant: the status of the ML service is passed on
StatusPassedOn(status) == Reply(status, ErrorBody("ML service error"))

\* the reply to a response of the ML service that is not ok
StatusReply(status) ==
    IF status = 503 THEN Reply(503, ErrorBody("Verification service unavailable"))
    ELSE IF status >= 500 THEN Reply(500, ErrorBody("ML service error"))
    ELSE IF status >= 400 THEN Reply(400, ErrorBody("Invalid request"))
    ELSE Reply(500, ErrorBody("Internal server error"))

\* the catch blocks: the inner one answers a timeout and a connection
\* failure, the outer one whatever the inner one throws again
CatchReply(error) ==
    IF error.kind = "abort" THEN Reply(504, ErrorBody("Request timeout"))
    ELSE IF Contains(error.message, "fetch failed")
              \/ Contains(error.message, "ECONNREFUSED")
    THEN Reply(503, ErrorBody("Verification service unavailable"))
    ELSE Reply(500, ErrorBody("Internal server error"))

\* faulty variant: the required fields are not checked
IncompleteNever(body) == FALSE

\* !result.claim || !result.verdict || result.confidence === undefined
Incomplete(body) ==
    \/ ~Truthy(body.claim, <<>>)
    \/ ~Truthy(body.verdict, "")
    \/ body.confidence = Absent

\* !['true', 'false', 'unverifiable'].includes(result.verdict)
VerdictUnknown(body) == ~(body.verdict.k = "str" /\ body.verdict.s \in Verdicts)

\* result.confidence < 0 || result.confidence > 1, with confidence in
\* hundredths; a value that converts to NaN or to 0 compares false
ConfidenceOutOfRange(body) ==
    body.confidence.k = "num" /\ (body.confidence.n < 0 \/ body.confidence.n > 100)

\* the reply to an OK response whose body the handler rejects, or None
BodyRejection(r, body) ==
    IF body.kind = "unparsable" \/ body.kind = "null"
    THEN Reply(500, ErrorBody("Internal server error"))
    ELSE IF Incomplete(body)
    THEN Reply(500, ErrorBody("Invalid response from verification service"))
    ELSE IF r = "rag" /\ (VerdictUnknown(body) \/ ConfidenceOutOfRange(body))
    THEN Reply(500, ErrorBody("Invalid response from verification service"))
    ELSE None

\* what the gateway leaves alone
pipelineVars == <<facts, callVars, storeVars, concurrentVars, pageVars>>

\* the gateway as started, before any event of the Redis client
GatewayStarted ==
    /\ route \in {"verify", "rag"}
    /\ isAvailable = FALSE
    /\ store = {}
    /\ sets = {}
    /\ pc = "idle"
    /\ claim = <<>>
    /\ upstream = None
    /\ cached = None
    /\ result = None
    /\ reply = None
    /\ getHow = "none"
    /\ setHow = "none"
    /\ cacheThrew = FALSE
    /\ facts = <<>>
    /\ CallAtRest
    /\ RetrieverAtRest
    /\ StoreAtRest
    /\ AloneAtRest
    /\ PageAtRest

GatewayInit == GatewayStarted /\ traffic = "short"

LimitInit == GatewayStarted /\ traffic = "limit"

\* redis.on('connect')
RedisConnect ==
    /\ isAvailable' = TRUE
    /\ UNCHANGED <<route, traffic, store, sets, pc, claim, upstream, cached, result,
                   reply, getHow, setHow, cacheThrew, pipelineVars>>

\* redis.on('error'), and the catch of redis.connect()
RedisError ==
    /\ isAvailable' = FALSE
    /\ UNCHANGED <<route, traffic, store, sets, pc, claim, upstream, cached, result,
                   reply, getHow, setHow, cacheThrew, pipelineVars>>

\* redis.on('close')
RedisClose ==
    /\ isAvailable' = FALSE
    /\ UNCHANGED <<route, traffic, store, sets, pc, claim, upstream, cached, result,
                   reply, getHow, setHow, cacheThrew, pipelineVars>>

\* the TTL of a key runs out
Expire ==
    /\ \E e \in store :
         /\ store' = store \ {e}
         /\ sets' = {x \in sets : x.key # e.key}
    /\ UNCHANGED <<route, traffic, isAvailable, pc, claim, upstream,
                   cached, result, reply, getHow, setHow, cacheThrew,
                   pipelineVars>>

\* The handler up to its first await: the input validation, and cache.get up
\* to redis.get.
Receive ==
    /\ pc \in {"idle", "done"}
    /\ \E c \in ClaimsFor(route, traffic) :
         /\ claim' = c
         /\ IF Validation(route, c) # None
            THEN /\ reply' = Validation(route, c)
                 /\ getHow' = "none"
                 /\ pc' = "done"
            ELSE /\ reply' = None
                 /\ getHow' = IF isAvailable THEN "pending" ELSE "unavailable"
                 /\ pc' = IF isAvailable THEN "redisGet" ELSE "fetch"
    /\ upstream' = None
    /\ cached' = None
    /\ result' = None
    /\ setHow' = "none"
    /\ UNCHANGED <<route, traffic, isAvailable, store, sets, cacheThrew,
                   pipelineVars>>

\* faulty variant: the handler asks the ML service although the cache
\* held a result
RedisGetReturnsIgnoresHit ==
    /\ pc = "redisGet"
    /\ getHow' = "done"
    /\ cached' = IF Held(GenerateKey(route, claim)) # {}
                 THEN JsonParse((CHOOSE e \in Held(GenerateKey(route, claim)) : TRUE).value)
                 ELSE None
    /\ reply' = None
    /\ pc' = "fetch"
    /\ UNCHANGED <<route, traffic, isAvailable, store, sets, claim,
                   upstream, result, setHow, cacheThrew, pipelineVars>>

\* redis.get resolves: a hit is parsed and returned, and the handler answers
\* with it when it is truthy; otherwise the handler goes on to the ML service
RedisGetReturns ==
    /\ pc = "redisGet"
    /\ getHow' = "done"
    /\ IF Held(GenerateKey(route, claim)) # {}
       THEN LET e == CHOOSE e \in Held(GenerateKey(route, claim)) : TRUE
            IN /\ cached' = JsonParse(e.value)
               /\ reply' = Reply(200, JsonParse(e.value))
               /\ pc' = "done"
       ELSE /\ cached' = None
            /\ reply' = None
            /\ pc' = "fetch"
    /\ UNCHANGED <<route, traffic, isAvailable, store, sets, claim,
                   upstream, result, setHow, cacheThrew, pipelineVars>>

\* faulty variant: the failure of redis.get leaves cache.get, and the
\* handler's outer catch answers it
RedisGetFailsEscapes ==
    /\ pc = "redisGet"
    /\ getHow' = "failed"
    /\ cacheThrew' = TRUE
    /\ reply' = Reply(500, ErrorBody("Internal server error"))
    /\ pc' = "done"
    /\ UNCHANGED <<route, traffic, isAvailable, store, sets, claim,
                   upstream, cached, result, setHow, pipelineVars>>

\* redis.get rejects: the catch of cache.get returns null
RedisGetFails ==
    /\ pc = "redisGet"
    /\ getHow' = "failed"
    /\ pc' = "fetch"
    /\ UNCHANGED <<route, traffic, isAvailable, store, sets, claim,
                   upstream, cached, result, reply, setHow, cacheThrew,
                   pipelineVars>>

\* The 30 second timer set before the fetch fires while the fetch is pending:
\* controller.abort() rejects the fetch with an AbortError, which the inner
\* catch answers.
Timeout ==
    /\ pc = "fetch"
    /\ upstream' = [kind |-> "abort"]
    /\ reply' = CatchReply([kind |-> "abort"])
    /\ pc' = "done"
    /\ UNCHANGED <<route, traffic, isAvailable, store, sets, claim, cached,
                   result, getHow, setHow, cacheThrew, pipelineVars>>

\* The fetch of the ML service settles. A rejection is answered by the catch
\* blocks; on a response (its status line and headers are there) the handler
\* clears the timer and goes on to read the body.
Fetch ==
    /\ pc = "fetch"
    /\ \E o \in Outcomes(claim) :
         /\ o.kind # "abort"
         /\ upstream' = o
         /\ IF o.kind = "error"
            THEN /\ reply' = CatchReply(o)
                 /\ pc' = "done"
            ELSE /\ reply' = None
                 /\ pc' = "body"
    /\ UNCHANGED <<route, traffic, isAvailable, store, sets, claim, cached,
                   result, getHow, setHow, cacheThrew, pipelineVars>>

\* The body of the response has arrived (response.text() of a response that
\* is not ok, response.json() of one that is): the handler maps the status to
\* its reply, or validates the body and enters cache.set up to redis.setex.
ReadBody ==
    /\ pc = "body"
    /\ IF upstream.kind = "status"
       THEN /\ reply' = StatusReply(upstream.status)
            /\ result' = None /\ setHow' = "none" /\ pc' = "done"
       ELSE IF BodyRejection(route, upstream.body) # None
       THEN /\ reply' = BodyRejection(route, upstream.body)
            /\ result' = None /\ setHow' = "none" /\ pc' = "done"
       ELSE /\ result' = upstream.body
            /\ IF isAvailable
               THEN /\ setHow' = "pending"
                    /\ reply' = None
                    /\ pc' = "redisSet"
               ELSE /\ setHow' = "unavailable"
                    /\ reply' = Reply(200, upstream.body)
                    /\ pc' = "done"
    /\ UNCHANGED <<route, traffic, isAvailable, store, sets, claim, upstream,
                   cached, getHow, cacheThrew, pipelineVars>>

\* redis.setex resolves: the key holds the stringified result
RedisSetReturns ==
    /\ pc = "redisSet"
    /\ LET key == GenerateKey(route, claim)
       IN /\ store' = {e \in store : e.key # key}
                        \cup {[key |-> key, value |-> JsonStringify(result)]}
          /\ sets' = {x \in sets : x.key # key}
                        \cup {[key |-> key, claim |-> claim, result |-> result]}
    /\ setHow' = "done"
    /\ reply' = Reply(200, result)
    /\ pc' = "done"
    /\ UNCHANGED <<route, traffic, isAvailable, claim, upstream, cached,
                   result, getHow, cacheThrew, pipelineVars>>

\* redis.setex rejects: the catch of cache.set swallows the failure
RedisSetFails ==
    /\ pc = "redisSet"
    /\ setHow' = "failed"
    /\ reply' = Reply(200, result)
    /\ pc' = "done"
    /\ UNCHANGED <<route, traffic, isAvailable, store, sets, claim,
                   upstream, cached, result, getHow, cacheThrew, pipelineVars>>

GatewayNext ==
    \/ RedisConnect
    \/ RedisError
    \/ RedisClose
    \/ Expire
    \/ Receive
    \/ RedisGetReturns
    \/ RedisGetFails
    \/ Timeout
    \/ Fetch
    \/ ReadBody
    \/ RedisSetReturns
    \/ RedisSetFails

GatewaySpec == GatewayInit /\ [][GatewayNext]_gatewayVars

\* The gateway with what its runtime guarantees: a timer that is set fires
\* unless it is cleared, and a Redis command resolves or rejects. The ML
\* service is held to nothing.
GatewayFairSpec ==
    /\ GatewaySpec
    /\ WF_gatewayVars(Timeout)
    /\ WF_gatewayVars(RedisGetReturns \/ RedisGetFails)
    /\ WF_gatewayVars(RedisSetReturns \/ RedisSetFails)

\* the gateway under claims at the limit of length
LimitSpec == LimitInit /\ [][GatewayNext]_gatewayVars

\* ---------------------------------------------------------- the page (UI)
\* the runs of handleVerify and of submitFeedback one behaviour follows
MaxRuns == 2
MaxFeedbacks == 2

\* what the user may type
PageClaims == {<<>>, <<" ">>, <<"a">>}

\* how fetch of the verify endpoint may resolve: a response that is not ok,
\* or an ok response whose body parses to a result or does not parse
PageResponses ==
    {[ok |-> FALSE, status |-> n, verdict |-> ""] : n \in {400, 500, 503, 504}}
    \cup {[ok |-> TRUE, status |-> 200, verdict |-> v] :
            v \in {"true", "unverifiable", "unparsable"}}

\* how fetch may reject: a TypeError naming fetch, or anything else
PageFailures == {"TypeError: fetch failed", "other"}

\* the first loading stage of a run
FirstStage(rag) == IF rag THEN "Extracting claims..." ELSE "Analyzing with AI..."

\* the updater the interval passes to setLoadingStage
NextStage(rag, prev) ==
    IF rag
    THEN IF prev = "Extracting claims..." THEN "Searching PIB fact database..."
         ELSE IF prev = "Searching PIB fact database..." THEN "Analyzing evidence..."
         ELSE IF prev = "Analyzing evidence..." THEN "Generating verdict..."
         ELSE prev
    ELSE IF prev = "Analyzing with AI..." THEN "Generating verdict..."
         ELSE prev

\* the message set for a response that is not ok
ResponseError(status) ==
    IF status = 400 THEN "Invalid request"
    ELSE IF status = 503 THEN "Verification service is temporarily unavailable"
    ELSE IF status = 504 THEN "Request timed out"
    ELSE "Failed to verify claim"

\* the message set in the catch block
CaughtError(failure) ==
    IF failure = "TypeError: fetch failed"
    THEN "Unable to connect to the verification service"
    ELSE "An unexpected error occurred"

\* data.verdict after the normalisation of unverifiable
NormalizeVerdict(verdict) == IF verdict = "unverifiable" THEN "uncertain" ELSE verdict

PageInit ==
    /\ typed = <<>>
    /\ useRagMode \in BOOLEAN
    /\ shown = None
    /\ loading = FALSE
    /\ errorShown = ""
    /\ loadingStage = ""
    /\ feedbackSubmitted = FALSE
    /\ feedbackLoading = FALSE
    /\ runs = <<>>
    /\ intervals = {}
    /\ feedbackRequests = <<>>
    /\ facts = <<>>
    /\ CallAtRest
    /\ RetrieverAtRest
    /\ StoreAtRest
    /\ AloneAtRest
    /\ GatewayAtRest

\* what the page leaves alone
serverVars == <<facts, callVars, storeVars, concurrentVars, gatewayVars>>

\* onChange of the textarea, and the click on an example
Type ==
    /\ \E c \in PageClaims : c # typed /\ typed' = c
    /\ UNCHANGED <<useRagMode, shown, loading, errorShown, loadingStage,
                   feedbackSubmitted, feedbackLoading, runs, intervals,
                   feedbackRequests, serverVars>>

\* handleVerify up to its await: the validation, the loading states, the
\* interval and the call of fetch
HandleVerify ==
    LET trimmedClaim == Strip(typed)
    IN IF trimmedClaim = <<>>
       THEN /\ errorShown' = "Please enter a claim to verify"
            /\ UNCHANGED <<typed, useRagMode, shown, loading, loadingStage,
                           feedbackSubmitted, feedbackLoading, runs,
                           intervals, feedbackRequests, serverVars>>
       ELSE IF Len(trimmedClaim) > MaxClaimLength
       THEN /\ errorShown' = "Claim is too long"
            /\ UNCHANGED <<typed, useRagMode, shown, loading, loadingStage,
                           feedbackSubmitted, feedbackLoading, runs,
                           intervals, feedbackRequests, serverVars>>
       ELSE /\ Len(runs) < MaxRuns
            /\ loading' = TRUE
            /\ errorShown' = ""
            /\ shown' = None
            /\ loadingStage' = FirstStage(useRagMode)
            /\ intervals' = intervals \cup {Len(runs) + 1}
            /\ runs' = Append(runs, [pc |-> "fetch", claim |-> trimmedClaim,
                                     rag |-> useRagMode, response |-> None,
                                     outcome |-> "pending"])
            /\ UNCHANGED <<typed, useRagMode, feedbackSubmitted,
                           feedbackLoading, feedbackRequests, serverVars>>

\* the Verify button, disabled while loading and on an empty claim
ClickVerify == ~loading /\ Strip(typed) # <<>> /\ HandleVerify

\* the Retry button of the error box, disabled while loading
ClickRetry == errorShown # "" /\ ~loading /\ HandleVerify

\* the key events the textarea may see
KeyEvents == [key : {"Enter", "a"}, ctrlKey : BOOLEAN]

\* handleKeyDown: Ctrl+Enter in the textarea calls handleVerify
KeyDown ==
    \E e \in KeyEvents :
        IF e.key = "Enter" /\ e.ctrlKey
        THEN HandleVerify
        ELSE UNCHANGED <<pageVars, serverVars>>

\* the callback of a stageInterval that is active
Tick ==
    /\ \E i \in intervals :
         loadingStage' = NextStage(runs[i].rag, loadingStage)
    /\ UNCHANGED <<typed, useRagMode, shown, loading, errorShown,
                   feedbackSubmitted, feedbackLoading, runs, intervals,
                   feedbackRequests, serverVars>>

\* the finally block of handleVerify
Finally ==
    /\ loading' = FALSE
    /\ loadingStage' = ""
    /\ feedbackSubmitted' = FALSE

\* fetch rejects: the catch block sets the error, then the finally block
VerifyThrows ==
    /\ \E i \in 1..Len(runs) :
         /\ runs[i].pc = "fetch"
         /\ \E failure \in PageFailures : errorShown' = CaughtError(failure)
         /\ runs' = [runs EXCEPT ![i].pc = "finished", ![i].outcome = "thrown"]
    /\ Finally
    /\ UNCHANGED <<typed, useRagMode, shown, feedbackLoading, intervals,
                   feedbackRequests, serverVars>>

\* fetch resolves: the interval is cleared and the body is awaited
VerifyResponds ==
    /\ \E i \in 1..Len(runs) :
         /\ runs[i].pc = "fetch"
         /\ \E r \in PageResponses :
              runs' = [runs EXCEPT ![i].pc = "body", ![i].response = r]
         /\ intervals' = intervals \ {i}
    /\ UNCHANGED <<typed, useRagMode, shown, loading, errorShown, loadingStage,
                   feedbackSubmitted, feedbackLoading, feedbackRequests,
                   serverVars>>

\* the body is there: an error response sets the error, a body that does
\* not parse ends in the catch block, a result is shown; then the finally
\* block
VerifyFinishes ==
    /\ \E i \in 1..Len(runs) :
         /\ runs[i].pc = "body"
         /\ LET r == runs[i].response
            IN IF ~r.ok
               THEN /\ errorShown' = ResponseError(r.status)
                    /\ shown' = shown
                    /\ runs' = [runs EXCEPT ![i].pc = "finished", ![i].response = None,
                                            ![i].outcome = "error"]
               ELSE IF r.verdict = "unparsable"
               THEN /\ errorShown' = CaughtError("other")
                    /\ shown' = shown
                    /\ runs' = [runs EXCEPT ![i].pc = "finished", ![i].response = None,
                                            ![i].outcome = "thrown"]
               ELSE /\ errorShown' = errorShown
                    /\ shown' = [run |-> i, claim |-> runs[i].claim,
                                 verdict |-> NormalizeVerdict(r.verdict)]
                    /\ runs' = [runs EXCEPT ![i].pc = "finished", ![i].response = None,
                                            ![i].outcome = "result"]
    /\ Finally
    /\ UNCHANGED <<typed, useRagMode, feedbackLoading, intervals,
                   feedbackRequests, serverVars>>

\* A feedback button, rendered with the result while feedbackSubmitted is
\* false and disabled while feedbackLoading: submitFeedback up to its await
ClickFeedback ==
    /\ shown # None
    /\ ~loading
    /\ ~feedbackSubmitted
    /\ ~feedbackLoading
    /\ Len(feedbackRequests) < MaxFeedbacks
    /\ feedbackLoading' = TRUE
    /\ \E helpful \in BOOLEAN :
         feedbackRequests' =
             Append(feedbackRequests,
                    [pc |-> "fetch", result |-> shown.run, helpful |-> helpful,
                     outcome |-> "pending"])
    /\ UNCHANGED <<typed, useRagMode, shown, loading, errorShown, loadingStage,
                   feedbackSubmitted, runs, intervals, serverVars>>

\* the fetch of /api/rag/feedback ends: accepted (ok), refused or rejected
FeedbackEnds ==
    /\ \E j \in 1..Len(feedbackRequests) :
         /\ feedbackRequests[j].pc = "fetch"
         /\ \E how \in {"ok", "refused", "thrown"} :
              /\ feedbackRequests' =
                     [feedbackRequests EXCEPT ![j].pc = "finished",
                                              ![j].outcome = how]
              /\ feedbackSubmitted' = IF how = "ok" THEN TRUE
                                      ELSE feedbackSubmitted
    /\ feedbackLoading' = FALSE
    /\ UNCHANGED <<typed, useRagMode, shown, loading, errorShown, loadingStage,
                   runs, intervals, serverVars>>

\* the Verify Another Claim button under a result
ClickVerifyAnother ==
    /\ shown # None
    /\ ~loading
    /\ shown' = None
    /\ typed' = <<>>
    /\ feedbackSubmitted' = FALSE
    /\ UNCHANGED <<useRagMode, loading, errorShown, loadingStage,
                   feedbackLoading, runs, intervals, feedbackRequests,
                   serverVars>>

PageNext ==
    \/ Type
    \/ ClickVerify
    \/ ClickRetry
    \/ KeyDown
    \/ Tick
    \/ VerifyThrows
    \/ VerifyResponds
    \/ VerifyFinishes
    \/ ClickFeedback
    \/ FeedbackEnds
    \/ ClickVerifyAnother

PageSpec == PageInit /\ [][PageNext]_pageVars

\* ------------------------------------------------------------------ claims
Compared == state \in {"Compared", "Assembled"}

UnitInterval(c) == RatLeq(Zero, c) /\ RatLeq(c, One)

\* C1: compare(claim, []) returns verdict unverifiable and confidence 0.0, and
\* the generative model is not invoked during that call.
C1_EmptyEvidenceLaw ==
    (Compared /\ retrieved_facts = <<>>) =>
        /\ comparison.verdict = "unverifiable"
        /\ RatEq(comparison.confidence, Zero)
        /\ llmCalls = 0

C1_Witness ==
    state = "Compared" /\ retrieved_facts = <<>> /\ facts # <<>> /\ llmCalls = 0

\* C2: every ComparisonResult the comparator returns, whatever the model
\* replied, has verdict in {true, false, unverifiable} and a confidence
\* between 0.0 and 1.0.
C2_ComparisonResultValid ==
    Compared =>
        /\ comparison.verdict \in Verdicts
        /\ UnitInterval(comparison.confidence)

\* the reply of the model could not be parsed
ParseFailed ==
    /\ Compared
    /\ llmResponse # None
    /\ ~ParseSucceeds(llmResponse.text, retrieved_facts)

C4_ConfidenceCap ==
    (Compared /\ comparison.verdict = "unverifiable" /\ confidenceSource = "evidence") =>
        RatLeq(comparison.confidence, Half)

\* the mean similarity of the evidence exceeds 0.5, so the cap applies
C4_Witness ==
    /\ state = "Compared"
    /\ comparison.verdict = "unverifiable"
    /\ confidenceSource = "evidence"
    /\ 2 * SumSimilarity(retrieved_facts) > 100 * Len(retrieved_facts)
    /\ RatEq(comparison.confidence, Half)

C7_ExtractionFailureAbsorbed ==
    ~(state = "Failed" /\ raised = "ClaimExtractionError")

\* C8: when retrieval returns zero evidence, the request proceeds to the
\* comparator with the empty list and completes in Assembled with verdict
\* unverifiable, and the generative model is never invoked.
C8_ZeroEvidenceAssembles ==
    /\ [](state = "Assembled" /\ retrieved_facts = <<>> =>
            /\ response.verdict = "unverifiable"
            /\ response.evidence = <<>>
            /\ llmCalls = 0)
    /\ (state = "Retrieved" /\ retrieved_facts = <<>>) ~> (state = "Assembled")

C8_Witness ==
    /\ state = "Assembled"
    /\ retrieved_facts = <<>>
    /\ response.verdict = "unverifiable"
    /\ facts = <<>>

States == {"Started", "Extracted", "Retrieved", "Compared", "Assembled", "Failed"}

Successor(s) ==
    CASE s = "Started" -> {"Extracted", "Failed"}
      [] s = "Extracted" -> {"Retrieved", "Failed"}
      [] s = "Retrieved" -> {"Compared", "Failed"}
      [] s = "Compared" -> {"Assembled", "Failed"}
      [] OTHER -> {}

\* C9: a request passes through Started, Extracted, Retrieved, Compared,
\* Assembled in this order without skipping, repeating or re-entering a
\* state; the only other state is Failed; Assembled and Failed are final.
C9_LinearOrder ==
    /\ [](state \in States)
    /\ [][state' \in Successor(state)]_state
    /\ [][(state \in {"Assembled", "Failed"}) => UNCHANGED vars]_vars

C9_Witness == state = "Assembled" /\ retrieved_facts # <<>>

\* C10: when the model call fails during compare after extraction and
\* retrieval completed with non-empty evidence, the failure the orchestrator
\* surfaces carries metadata with extraction_time and retrieval_time.
C10_FailureKeepsTimings ==
    (state = "Failed" /\ raised = "LLMError") =>
        {"extraction_time", "retrieval_time"} \subseteq DOMAIN metadata

\* the distinct elements of a list, each at the place of its first occurrence
RECURSIVE FirstOccurrences(_)
FirstOccurrences(urls) ==
    IF urls = <<>> THEN <<>>
    ELSE LET rest == FirstOccurrences(SubSeq(urls, 1, Len(urls) - 1))
             last == urls[Len(urls)]
         IN IF \E i \in 1..Len(rest) : rest[i] = last THEN rest
            ELSE Append(rest, last)

\* C11: in every assembled RAGResponse, sources holds each source URL of the
\* retrieved evidence exactly once, in the order of the first occurrence of
\* that URL in the evidence list.
C11_SourcesDeduplicated ==
    state = "Assembled" =>
        response.sources =
            FirstOccurrences([i \in 1..Len(retrieved_facts) |->
                                retrieved_facts[i].fact.source_url])

\* C12: a call of _ensure_embeddings on a corpus in which every fact already
\* has an embedding, as any second call is, invokes the embedding function
\* zero times and leaves the corpus unchanged in memory and on disk.
C12_EnsureEmbeddingsIdempotent ==
    [][(managerOp' = "ensure" /\ managerCalls' = managerCalls + 1
          /\ \A i \in 1..Len(facts) : facts[i].embedding # Null)
        => UNCHANGED <<encodeCalls, facts, fact_base_file>>]_<<facts, storeVars>>

\* the first call embedded a fact, the second call found nothing to embed
C12_Witness ==
    /\ managerOp = "ensure"
    /\ managerCalls = 2
    /\ encodeCalls = 1
    /\ facts # <<>>

\* C13: once load and _ensure_embeddings have completed, every fact has an
\* embedding that is not None and has the configured dimension, and no two
\* facts of the corpus share an id.
C13_CorpusWellFormed ==
    managerOp # "none" =>
        /\ \A i \in 1..Len(facts) :
             /\ facts[i].embedding # Null
             /\ Len(facts[i].embedding.e) = Dimension
        /\ \A i, j \in 1..Len(facts) : facts[i].id = facts[j].id => i = j

\* what verify computes from the argument of a frame, the corpus, and the
\* answers the index and the model gave to that frame's own calls
OwnEvidence(frame) == Retrieve(facts, frame.results, similarity_threshold)

OwnComparison(frame) ==
    IF OwnEvidence(frame) = <<>> THEN NoEvidenceResult
    ELSE IF frame.llmResponse = None THEN None
    ELSE ParseResponse(frame.llmResponse.text, OwnEvidence(frame))

OwnTimings(frame) ==
    CASE frame.state = "Extracted" -> {"extraction_time"}
      [] frame.state = "Retrieved" ->
           {"extraction_time", "retrieval_time", "facts_retrieved"}
      [] frame.state = "Compared" ->
           {"extraction_time", "retrieval_time", "facts_retrieved",
            "comparison_time"}
      [] frame.state = "Assembled" ->
           {"extraction_time", "retrieval_time", "facts_retrieved",
            "comparison_time", "total_time"}
      [] OTHER -> {}

FromOwnState(frame) ==
    /\ DOMAIN frame.metadata = OwnTimings(frame)
    /\ frame.state \in {"Extracted", "Retrieved", "Compared", "Assembled"} =>
         frame.extracted_claim.text = Strip(frame.input)
    /\ frame.state \in {"Retrieved", "Compared", "Assembled"} =>
         /\ frame.retrieved_facts = OwnEvidence(frame)
         /\ frame.metadata["facts_retrieved"] = Len(OwnEvidence(frame))
    /\ frame.state \in {"Compared", "Assembled"} =>
         frame.comparison = OwnComparison(frame)
    /\ frame.state = "Assembled" =>
         frame.response =
            [claim |-> frame.input,
             extracted_claim |-> frame.extracted_claim,
             verdict |-> frame.comparison.verdict,
             confidence |-> frame.comparison.confidence,
             explanation |-> frame.comparison.explanation,
             reasoning |-> frame.comparison.reasoning,
             evidence |-> SerializeEvidence(OwnEvidence(frame)),
             sources |-> Sources(OwnEvidence(frame)),
             metadata |-> frame.metadata]

\* C14: under any interleaving of concurrent calls of verify, a stage of one
\* call writes only the frame of that call and leaves the corpus and the
\* retriever's settings as they are, and what a frame holds (extracted claim,
\* evidence, comparison, timings, response) follows from that call's own
\* argument and own answers alone, never from the frame of another call.
C14_RequestIsolation ==
    /\ [](\A r \in Requests : FromOwnState(requests[r]))
    /\ [][/\ \A r \in Requests : r # actor' => requests'[r] = requests[r]
          /\ UNCHANGED <<facts, similarity_threshold, top_k>>]_<<facts, callVars, concurrentVars>>

\* both calls are assembled, each on evidence of its own
C14_Witness ==
    /\ requests[1].state = "Assembled"
    /\ requests[2].state = "Assembled"
    /\ requests[1].retrieved_facts # requests[2].retrieved_facts
    /\ requests[2].retrieved_facts # <<>>
    /\ actor = 1

\* the handler answered 400 from its input validation
Rejected ==
    /\ pc = "done"
    /\ reply.status = 400
    /\ reply.body \in {ErrorBody("Claim is required"), ErrorBody("Claim too long")}

\* the request passed the input validation
Accepted == pc \in {"redisGet", "fetch", "body", "redisSet"} \/ (pc = "done" /\ ~Rejected)

AnsweredFromUpstream == pc = "done" /\ upstream # None

\* the required fields of a verification result are there
HasRequiredFields(body) ==
    /\ body.kind = "object"
    /\ body.claim.k = "str" /\ body.claim.s # <<>>
    /\ body.verdict.k = "str" /\ body.verdict.s # ""
    /\ body.confidence # Absent

\* C16: for a valid request that misses the cache the status of the reply
\* follows from how the call of the ML service ended: 503 on its 503, 500 on
\* any other 5xx, 400 on a 4xx, 504 on the abort by the timeout, 503 on a
\* connection failure (fetch failed, ECONNREFUSED), 500 on any other
\* exception; and 200 only on an OK response that passed the validation.
C16_StatusMapping ==
    AnsweredFromUpstream =>
        /\ CASE upstream.kind = "status" ->
                  IF upstream.status = 503 THEN reply.status = 503
                  ELSE IF upstream.status >= 500 /\ upstream.status <= 599
                  THEN reply.status = 500
                  ELSE IF upstream.status >= 400 /\ upstream.status <= 499
                  THEN reply.status = 400
                  ELSE reply.status = 500
             [] upstream.kind = "abort" -> reply.status = 504
             [] upstream.kind = "error" ->
                  IF upstream.message \in {<<"fetch failed">>, <<"connect", "ECONNREFUSED">>}
                  THEN reply.status = 503
                  ELSE reply.status = 500
             [] upstream.kind = "ok" -> reply.status \in {200, 500}
        /\ reply.status = 200 =>
             (upstream.kind = "ok" /\ HasRequiredFields(upstream.body))

\* the ML service answered 502 and the handler 500
C16_Witness ==
    /\ AnsweredFromUpstream
    /\ upstream = [kind |-> "status", status |-> 502]
    /\ reply.status = 500

\* a verification result with its fields present, a known verdict and a
\* confidence between 0 and 1
ValidResult(body) ==
    /\ body.kind = "object"
    /\ body.claim # Absent
    /\ body.verdict.k = "str" /\ body.verdict.s \in Verdicts
    /\ body.confidence.k = "num"
    /\ body.confidence.n >= 0 /\ body.confidence.n <= 100

\* C17: every 200 reply of POST /api/rag/verify, from the ML service or from
\* the cache, has claim, verdict and confidence present, a verdict in
\* {true, false, unverifiable} and a confidence between 0 and 1; an OK
\* response of the ML service whose body violates any of these is answered
\* with 500.
C17_RagReplyValid ==
    (route = "rag" /\ pc = "done") =>
        /\ reply.status = 200 => ValidResult(reply.body)
        /\ (upstream # None /\ upstream.kind = "ok" /\ ~ValidResult(upstream.body))
             => reply.status = 500

\* C18: CacheManager.get and CacheManager.set never throw or reject, whatever
\* the availability and however connect, error and close events fall between
\* the steps of a call: unavailable or on a failed command, get resolves to
\* null and the handler goes on to the ML service, set resolves without
\* storing, and the result of the ML service is answered with 200.
C18_CacheNeverThrows ==
    /\ [](cacheThrew = FALSE)
    /\ [](getHow \in {"unavailable", "failed"} =>
            /\ cached = None
            /\ pc = "done" => upstream # None)
    /\ [][(setHow' \in {"unavailable", "failed"} /\ setHow' # setHow)
            => (store' = store /\ reply' = Reply(200, result'))]_gatewayVars

\* redis.get failed on a connection lost during the call, the handler asked
\* the ML service, and set found the cache unavailable
C18_Witness ==
    /\ pc = "done"
    /\ getHow = "failed"
    /\ setHow = "unavailable"
    /\ reply.status = 200

\* equal up to letter case and leading and trailing whitespace
SameClaim(c1, c2) == Strip(ToLowerCase(c1)) = Strip(ToLowerCase(c2))

\* C19: while the cache is available and the entry has not expired, after
\* set(c, r) a get(c') that Redis answers returns a value equal to r for
\* every claim c' equal to c up to letter case and leading and trailing
\* whitespace.
C19_CacheRoundTrip ==
    [][(getHow = "pending" /\ getHow' = "done")
         => \A x \in sets : SameClaim(x.claim, claim) => cached' = x.result]_gatewayVars

\* a hit on an entry that was set under a claim of other case and spacing
C19_Witness ==
    /\ pc = "done"
    /\ getHow = "done"
    /\ \E x \in sets : x.claim # claim /\ SameClaim(x.claim, claim) /\ cached = x.result

\* C20: in every 200 reply of POST /api/verify, whatever requests came
\* before, the claim field of the body equals the claim of the request.
C20_ReplyEchoesClaim ==
    (route = "verify" /\ pc = "done" /\ reply.status = 200) =>
        reply.body.claim = Str(claim)

\* C23: the list returned by retrieve is ordered by descending similarity:
\* of two adjacent results the earlier one's similarity is at least the
\* later one's.
C23_DescendingSimilarity ==
    \A i \in 1..(Len(retrieved_facts) - 1) :
        retrieved_facts[i].similarity >= retrieved_facts[i + 1].similarity

\* retrieve returned two facts of different similarity
C23_Witness ==
    /\ state = "Retrieved"
    /\ Len(retrieved_facts) >= 2
    /\ retrieved_facts[1].similarity > retrieved_facts[2].similarity

C25_NoEmptyEmbeddingLeft ==
    managerOp # "none" =>
        \A i \in 1..Len(facts) : facts[i].embedding \notin {Null, Vec(<<>>)}

\* C26: a failure or timeout of the retrieval stage does not fail the
\* request: the orchestrator goes on with an empty evidence list, so the
\* request never ends Failed on a retrieval error.
C26_RetrievalFailureAbsorbed ==
    ~(state = "Failed" /\ raised = "RetrievalError")

\* C28: every valid request that reaches the call of the ML service is
\* answered in the end: when the ML service does not finish its reply, the
\* 30 second abort fires and the gateway answers 504 instead of waiting
\* forever.
C28_EveryCallAnswered == (pc = "fetch") ~> (pc = "done")

\* cache.get of the current request has returned
CacheConsulted == getHow \in {"done", "failed", "unavailable"}

\* C22: for every valid request the gateway consults the cache before the ML
\* service; on a hit it returns the cached result and does not call the ML
\* service for that request; on a miss it calls the ML service, and the
\* result is stored only after that call.
C22_CacheAside ==
    /\ [](pc \in {"fetch", "body", "redisSet"} \/ upstream # None
            => CacheConsulted /\ cached = None)
    /\ [](cached # None =>
            /\ pc = "done"
            /\ reply = Reply(200, cached)
            /\ upstream = None
            /\ setHow = "none")
    /\ []((pc = "done" /\ CacheConsulted /\ cached = None) => upstream # None)
    /\ [](setHow # "none" =>
            /\ upstream # None
            /\ upstream.kind = "ok"
            /\ result = upstream.body)
    /\ []((pc = "done" /\ upstream # None /\ reply.status = 200) => setHow # "none")
    /\ [][(CacheConsulted' /\ ~CacheConsulted /\ cached' = None) => pc' = "fetch"]_gatewayVars

\* a request answered from the cache, an earlier one having stored the result
C22_Witness ==
    /\ pc = "done"
    /\ getHow = "done"
    /\ cached # None
    /\ upstream = None
    /\ reply.status = 200
    /\ sets # {}

\* the key holds a value it did not hold before
Written == \E e \in store' : e \notin store

\* the body passed the validation of the handler of its route
PassedValidation(r, body) ==
    /\ HasRequiredFields(body)
    /\ r = "rag" =>
          /\ body.verdict.s \in Verdicts
          /\ body.confidence.k = "num" => (body.confidence.n >= 0 /\ body.confidence.n <= 100)

\* C27: the gateway writes a cache entry only after the ML service returned
\* an OK response whose body passed the handler's validation, and what it
\* writes is that body; a request that ends with 400, 500, 503 or 504 has not
\* called cache.set, and the step that answers it leaves the cache as it is.
C27_WriteOnlyValidated ==
    /\ [][Written =>
            /\ pc = "redisSet"
            /\ upstream # None
            /\ upstream.kind = "ok"
            /\ PassedValidation(route, upstream.body)
            /\ store' \ store =
                 {[key |-> GenerateKey(route, claim),
                   value |-> JsonStringify(upstream.body)]}
            /\ reply'.status = 200]_gatewayVars
    /\ []((pc = "done" /\ reply.status \in {400, 500, 503, 504}) => setHow = "none")
    /\ [][(pc' = "done" /\ pc # "done" /\ reply'.status \in {400, 500, 503, 504})
            => store' = store]_gatewayVars

\* the ML service answered OK with a body without verdict, the handler
\* answered 500, and the cache, which is connected, holds nothing
C27_Witness ==
    /\ pc = "done"
    /\ isAvailable
    /\ upstream # None
    /\ upstream.kind = "ok"
    /\ upstream.body.kind = "object"
    /\ upstream.body.verdict = Absent
    /\ reply.status = 500
    /\ store = {}

\* C21: for any submission of a claim that is not empty, loading is true
\* from the start of the API call until it completes, and false after
\* completion, whether the call succeeded, returned an error response or
\* threw.
C21_LoadingConsistency ==
    /\ \A i \in 1..Len(runs) : runs[i].pc = "fetch" => loading
    /\ (runs # <<>> /\ \A i \in 1..Len(runs) : runs[i].pc = "finished") => ~loading

\* C29: after a run of handleVerify has finished, by a result, an error
\* response or a thrown fetch, the interval timer it started is cleared.
C29_IntervalCleared ==
    \A i \in 1..Len(runs) : runs[i].pc = "finished" => i \notin intervals

\* the feedback requests for a result that the server accepted
AcceptedFor(r) ==
    {j \in 1..Len(feedbackRequests) :
       feedbackRequests[j].result = r /\ feedbackRequests[j].outcome = "ok"}

\* C30: for each displayed result no feedback request is started while
\* another one for that result is in flight or after one has succeeded, so
\* at most one feedback submission per result is accepted.
C30_OneFeedbackPerResult ==
    /\ [][Len(feedbackRequests') > Len(feedbackRequests) =>
            \A j \in 1..Len(feedbackRequests) :
               feedbackRequests[j].result = feedbackRequests'[Len(feedbackRequests')].result
                 => (feedbackRequests[j].pc = "finished"
                     /\ feedbackRequests[j].outcome # "ok")]_pageVars
    /\ [](\A i \in 1..Len(runs) : Cardinality(AcceptedFor(i)) <= 1)

====
